---------------------------- MODULE Spec2Model ----------------------------
(* Model of IntercoolerSprayController.ino: the control cycle loop(), the  *)
(* Timer3 callback flashCallback() and a reset that re-runs setup().       *)
(* Time is the millis() counter; one Loop step is one pass of loop() made  *)
(* a nondeterministic number of milliseconds after the previous one.       *)
EXTENDS Integers, Naturals, FiniteSets, Sequences, TLC

(* ------------------------------------------------------------------ *)
(* Program constants                                                   *)
(* ------------------------------------------------------------------ *)
LOW  == FALSE
HIGH == TRUE

debounceDelay == 50
holdThreshold == 2000
doubleClickMaxGap == 500
sprayDuration == 2000
sprayInterval == 30000
lowWaterBlinkDuration == 10000
startupDelay == 15000
lowLevelDelay == 3000
waterStableTime == 1000
cooldownWindow == 60000
boostThreshold == 20000
warningBlinkPeriod == 500
rapidFlashPeriod == 200

MODE_OFF == 0
MODE_BOOST == 1
MODE_INTERVAL == 2
MODE_FORCE == 3

Mode == {MODE_OFF, MODE_BOOST, MODE_INTERVAL, MODE_FORCE}

(* ------------------------------------------------------------------ *)
(* Bounds of the model                                                 *)
(* ------------------------------------------------------------------ *)
\* the clock is explored up to MaxTime ms after boot (general model)
MaxTime == 19000
\* cadence of loop() while the start-up delay runs / afterwards (general model)
StartupPeriod == 5000
RunPeriod == 200
\* the spray-timing model: no button activity, a slower cadence, a longer horizon
SprayMaxTime == 66000
SprayPeriod == 1000
\* how many times the input pins change level in one run
MaxPinChanges == 4
MaxSprayPinChanges == 2
\* the dry-tank model
DryMaxTime == 36000
MaxDryPinChanges == 2
\* the boot model: the start-up delay at a cadence of BootPeriod
BootMaxTime == 16000
BootPeriod == 1000
MaxBootPinChanges == 1
\* the click model: rapid button activity at a cadence just above the debounce
\* delay, for a second after the start-up delay
ClickMaxTime == 16000
ClickPeriod == 75
MaxClickPinChanges == 6
\* the window model: the boost switch alone changes level, over more than the
\* cool-down window after its first sample
WindowMaxTime == 78000
MaxWindowPinChanges == 2
\* the debounce model: after start-up the cycles come DebounceFast ms apart
\* until DebounceFastUntil and DebounceSlow ms apart from then on, while the
\* button and the water line bounce
DebounceMaxTime == 16400
DebounceFastUntil == 15300
DebounceFast == 25
DebounceSlow == 500
MaxDebouncePinChanges == 4

(* ------------------------------------------------------------------ *)
(* State                                                               *)
(* ------------------------------------------------------------------ *)
VARIABLES
  now,                    \* millis()
  waterPin, hobbPin, buttonPin,  \* input pins 5, 7, 6 as loop() last read them
  pinChanges,             \* how many times an input pin has changed level
  pumpOnSince,            \* when the pump relay last went from LOW to HIGH
  flashByte,              \* dueFlashStorage byte 0
  pumpRelay, statusLED,   \* output pins 8 and 3
  timer3Running, timer3Period, timer3Next,
  currentMode, lastSavedMode,
  buttonPressStart, buttonHeld, waitingForSecondClick, lastClickTime,
  clickCount, lastDebounceTime, lastRawState, debouncedState,
  spraying, sprayStartTime, lastSprayTime,
  ledState, lastBlinkTime, flashActive, flashCount, flashTotal,
  lowWaterWarningActive, lowWaterWarningStart, lastRawWater, lowWater,
  lastWaterChange, lastLowWaterState,
  startupTime, startupDone,
  cooldownReady, boostTimeAccumulator, lastBoostUpdate, lastBoost,
  cooling, cooldownStart,
  lastBoostActive,        \* when trackBoostDuration last saw the switch active
  waterRawAge, buttonRawAge,  \* for how long the raw samples of each debouncer
                              \* have been equal, up to its window (-1: no sample)
  waterStableAge, buttonStableAge,  \* time since each stable value last
                              \* changed, up to the window (-1: never changed)
  ev                      \* what the last step did (observation only)

vars == << now, waterPin, hobbPin, buttonPin, pinChanges, pumpOnSince,
           flashByte, pumpRelay, statusLED,
           timer3Running, timer3Period, timer3Next,
           currentMode, lastSavedMode,
           buttonPressStart, buttonHeld, waitingForSecondClick, lastClickTime,
           clickCount, lastDebounceTime, lastRawState, debouncedState,
           spraying, sprayStartTime, lastSprayTime,
           ledState, lastBlinkTime, flashActive, flashCount, flashTotal,
           lowWaterWarningActive, lowWaterWarningStart, lastRawWater, lowWater,
           lastWaterChange, lastLowWaterState,
           startupTime, startupDone,
           cooldownReady, boostTimeAccumulator, lastBoostUpdate, lastBoost,
           cooling, cooldownStart, lastBoostActive,
           waterRawAge, buttonRawAge, waterStableAge, buttonStableAge, ev >>

\* observation record: nothing happened; starts, stops and writes list the
\* calls of startSpray and stopSpray and the flash writes made in the step
NoEv == [step |-> "none", cmd |-> "none", click |-> 0, from |-> MODE_OFF,
         hold |-> "none", starts |-> << >>, stops |-> << >>,
         writes |-> << >>]

\* the program state as one record, so that the functions of the sketch are
\* operators from state to state
Prog ==
  [ now |-> now, pumpOnSince |-> pumpOnSince,
    flashByte |-> flashByte, pumpRelay |-> pumpRelay, statusLED |-> statusLED,
    timer3Running |-> timer3Running, timer3Period |-> timer3Period,
    timer3Next |-> timer3Next,
    currentMode |-> currentMode, lastSavedMode |-> lastSavedMode,
    buttonPressStart |-> buttonPressStart, buttonHeld |-> buttonHeld,
    waitingForSecondClick |-> waitingForSecondClick,
    lastClickTime |-> lastClickTime, clickCount |-> clickCount,
    lastDebounceTime |-> lastDebounceTime, lastRawState |-> lastRawState,
    debouncedState |-> debouncedState,
    spraying |-> spraying, sprayStartTime |-> sprayStartTime,
    lastSprayTime |-> lastSprayTime,
    ledState |-> ledState, lastBlinkTime |-> lastBlinkTime,
    flashActive |-> flashActive, flashCount |-> flashCount,
    flashTotal |-> flashTotal,
    lowWaterWarningActive |-> lowWaterWarningActive,
    lowWaterWarningStart |-> lowWaterWarningStart,
    lastRawWater |-> lastRawWater, lowWater |-> lowWater,
    lastWaterChange |-> lastWaterChange,
    lastLowWaterState |-> lastLowWaterState,
    startupTime |-> startupTime, startupDone |-> startupDone,
    cooldownReady |-> cooldownReady,
    boostTimeAccumulator |-> boostTimeAccumulator,
    lastBoostUpdate |-> lastBoostUpdate, lastBoost |-> lastBoost,
    cooling |-> cooling, cooldownStart |-> cooldownStart,
    lastBoostActive |-> lastBoostActive,
    ev |-> ev ]

Commit(s) ==
  /\ now' = s.now
  /\ pumpOnSince' = s.pumpOnSince
  /\ timer3Next' = s.timer3Next
  /\ flashByte' = s.flashByte
  /\ pumpRelay' = s.pumpRelay
  /\ statusLED' = s.statusLED
  /\ timer3Running' = s.timer3Running
  /\ timer3Period' = s.timer3Period
  /\ currentMode' = s.currentMode
  /\ lastSavedMode' = s.lastSavedMode
  /\ buttonPressStart' = s.buttonPressStart
  /\ buttonHeld' = s.buttonHeld
  /\ waitingForSecondClick' = s.waitingForSecondClick
  /\ lastClickTime' = s.lastClickTime
  /\ clickCount' = s.clickCount
  /\ lastDebounceTime' = s.lastDebounceTime
  /\ lastRawState' = s.lastRawState
  /\ debouncedState' = s.debouncedState
  /\ spraying' = s.spraying
  /\ sprayStartTime' = s.sprayStartTime
  /\ lastSprayTime' = s.lastSprayTime
  /\ ledState' = s.ledState
  /\ lastBlinkTime' = s.lastBlinkTime
  /\ flashActive' = s.flashActive
  /\ flashCount' = s.flashCount
  /\ flashTotal' = s.flashTotal
  /\ lowWaterWarningActive' = s.lowWaterWarningActive
  /\ lowWaterWarningStart' = s.lowWaterWarningStart
  /\ lastRawWater' = s.lastRawWater
  /\ lowWater' = s.lowWater
  /\ lastWaterChange' = s.lastWaterChange
  /\ lastLowWaterState' = s.lastLowWaterState
  /\ startupTime' = s.startupTime
  /\ startupDone' = s.startupDone
  /\ cooldownReady' = s.cooldownReady
  /\ boostTimeAccumulator' = s.boostTimeAccumulator
  /\ lastBoostUpdate' = s.lastBoostUpdate
  /\ lastBoost' = s.lastBoost
  /\ cooling' = s.cooling
  /\ cooldownStart' = s.cooldownStart
  /\ lastBoostActive' = s.lastBoostActive
  /\ ev' = s.ev

\* the same, for the initial state
StartsAs(s) ==
  /\ now = s.now
  /\ pumpOnSince = s.pumpOnSince
  /\ timer3Next = s.timer3Next
  /\ flashByte = s.flashByte
  /\ pumpRelay = s.pumpRelay
  /\ statusLED = s.statusLED
  /\ timer3Running = s.timer3Running
  /\ timer3Period = s.timer3Period
  /\ currentMode = s.currentMode
  /\ lastSavedMode = s.lastSavedMode
  /\ buttonPressStart = s.buttonPressStart
  /\ buttonHeld = s.buttonHeld
  /\ waitingForSecondClick = s.waitingForSecondClick
  /\ lastClickTime = s.lastClickTime
  /\ clickCount = s.clickCount
  /\ lastDebounceTime = s.lastDebounceTime
  /\ lastRawState = s.lastRawState
  /\ debouncedState = s.debouncedState
  /\ spraying = s.spraying
  /\ sprayStartTime = s.sprayStartTime
  /\ lastSprayTime = s.lastSprayTime
  /\ ledState = s.ledState
  /\ lastBlinkTime = s.lastBlinkTime
  /\ flashActive = s.flashActive
  /\ flashCount = s.flashCount
  /\ flashTotal = s.flashTotal
  /\ lowWaterWarningActive = s.lowWaterWarningActive
  /\ lowWaterWarningStart = s.lowWaterWarningStart
  /\ lastRawWater = s.lastRawWater
  /\ lowWater = s.lowWater
  /\ lastWaterChange = s.lastWaterChange
  /\ lastLowWaterState = s.lastLowWaterState
  /\ startupTime = s.startupTime
  /\ startupDone = s.startupDone
  /\ cooldownReady = s.cooldownReady
  /\ boostTimeAccumulator = s.boostTimeAccumulator
  /\ lastBoostUpdate = s.lastBoostUpdate
  /\ lastBoost = s.lastBoost
  /\ cooling = s.cooling
  /\ cooldownStart = s.cooldownStart
  /\ lastBoostActive = s.lastBoostActive
  /\ ev = s.ev

(* ------------------------------------------------------------------ *)
(* Functions of the sketch                                             *)
(* ------------------------------------------------------------------ *)

\* startSpray(now): no guard, every call restarts the session clock; `who` is
\* the caller, noted with the time the relay goes from LOW to HIGH
startSpray(s, t, who) ==
  [s EXCEPT !.spraying = TRUE, !.sprayStartTime = t, !.lastSprayTime = t,
            !.pumpRelay = HIGH, !.statusLED = HIGH,
            !.pumpOnSince = IF s.pumpRelay = LOW THEN t ELSE @,
            !.ev.starts = Append(@, who)]

\* what a call of stopSpray met and left: was a session active, the two
\* outputs before the call and after it
StopSeen(s, pumpAfter, lampAfter) ==
  [active |-> s.spraying, pump |-> s.pumpRelay, lamp |-> s.statusLED,
   pumpAfter |-> pumpAfter, lampAfter |-> lampAfter]

\* faulty variant: the relay write is forgotten
stopSpray_relayLeftOn(s) ==
  LET lampAfter == IF ~s.flashActive THEN LOW ELSE s.statusLED
  IN [s EXCEPT !.spraying = FALSE, !.statusLED = lampAfter,
               !.ev.stops = Append(@, StopSeen(s, s.pumpRelay, lampAfter))]

\* stopSpray(): pump off, lamp off unless a flash pattern owns it
stopSpray(s) ==
  LET lampAfter == IF ~s.flashActive THEN LOW ELSE s.statusLED
  IN [s EXCEPT !.spraying = FALSE, !.pumpRelay = LOW, !.statusLED = lampAfter,
               !.ev.stops = Append(@, StopSeen(s, LOW, lampAfter))]

\* flashLED(now, interval)
flashLED(s, t, interval) ==
  IF t - s.lastBlinkTime >= interval
  THEN [s EXCEPT !.ledState = ~s.ledState, !.statusLED = ~s.ledState,
                 !.lastBlinkTime = t]
  ELSE s

\* startFlashPattern(count, interval): restarts Timer3 and the pattern; the
\* first interrupt comes one period after the start
startFlashPattern(s, count, interval) ==
  [s EXCEPT !.flashTotal = (count * 2) % 256, !.flashCount = 0,
            !.flashActive = TRUE, !.ledState = FALSE, !.statusLED = LOW,
            !.timer3Running = TRUE, !.timer3Period = interval,
            !.timer3Next = s.now + interval]

\* flashCallback(): the Timer3 interrupt handler
flashCallback(s) ==
  IF ~s.flashActive THEN s
  ELSE LET s1 == [s EXCEPT !.ledState = ~s.ledState, !.statusLED = ~s.ledState,
                           !.flashCount = (s.flashCount + 1) % 256]
       IN IF s1.flashCount >= s1.flashTotal
          THEN [s1 EXCEPT !.flashActive = FALSE, !.timer3Running = FALSE,
                          !.statusLED = LOW]
          ELSE s1

\* faulty variant: only Boost and Interval are persisted, as in the load rule
saveModeIfNeeded_skipsOff(s) ==
  IF s.currentMode \in {MODE_BOOST, MODE_INTERVAL}
     /\ s.currentMode # s.lastSavedMode
  THEN [s EXCEPT !.flashByte = s.currentMode, !.lastSavedMode = s.currentMode,
                 !.ev.writes = Append(@, s.currentMode)]
  ELSE s

\* faulty variant: the comparison with the stored mode is left out
saveModeIfNeeded_everyCall(s) ==
  IF s.currentMode \in {MODE_BOOST, MODE_INTERVAL, MODE_OFF}
  THEN [s EXCEPT !.flashByte = s.currentMode, !.lastSavedMode = s.currentMode,
                 !.ev.writes = Append(@, s.currentMode)]
  ELSE s

\* saveModeIfNeeded(): write-on-change of Off/Boost/Interval
saveModeIfNeeded(s) ==
  IF s.currentMode \in {MODE_BOOST, MODE_INTERVAL, MODE_OFF}
     /\ s.currentMode # s.lastSavedMode
  THEN [s EXCEPT !.flashByte = s.currentMode, !.lastSavedMode = s.currentMode,
                 !.ev.writes = Append(@, s.currentMode)]
  ELSE s

\* the start-up load rule of setup(): Boost or Interval kept, anything else Off
LoadMode(byte) ==
  IF byte = MODE_BOOST \/ byte = MODE_INTERVAL THEN byte ELSE MODE_OFF

\* faulty variant: a change of the raw level does not restart the window
debouncedWaterLevel_noRestart(s, t, raw) ==
  LET s1 == IF raw # s.lastRawWater
            THEN [s EXCEPT !.lastRawWater = raw]
            ELSE s
  IN IF t - s1.lastWaterChange >= waterStableTime
     THEN [s1 EXCEPT !.lowWater = raw]
     ELSE s1

\* debouncedWaterLevel(now, raw)
debouncedWaterLevel(s, t, raw) ==
  LET s1 == IF raw # s.lastRawWater
            THEN [s EXCEPT !.lastWaterChange = t, !.lastRawWater = raw]
            ELSE s
  IN IF t - s1.lastWaterChange >= waterStableTime
     THEN [s1 EXCEPT !.lowWater = raw]
     ELSE s1

\* handleButton, lines 137-161: a debounced edge of the button
ButtonEdge(s, t, reading) ==
  LET s1 == [s EXCEPT !.debouncedState = reading]
  IN IF reading = LOW
     THEN [s1 EXCEPT !.buttonPressStart = t, !.buttonHeld = FALSE]
     ELSE IF ~s1.buttonHeld
          THEN LET s2 == [s1 EXCEPT !.clickCount = (s1.clickCount + 1) % 256]
               IN IF ~s2.waitingForSecondClick
                  THEN [s2 EXCEPT !.waitingForSecondClick = TRUE,
                                  !.lastClickTime = t]
                  ELSE s2
          ELSE stopSpray([s1 EXCEPT !.currentMode = s1.lastSavedMode,
                                    !.ev.hold = "release"])

\* faulty variant: the hold flag is not consulted, the event fires in every cycle
HoldCheck_refires(s, t) ==
  IF s.debouncedState = LOW /\ t - s.buttonPressStart >= holdThreshold
  THEN [s EXCEPT !.buttonHeld = TRUE, !.currentMode = MODE_FORCE,
                 !.ev.hold = "start"]
  ELSE s

\* handleButton, lines 164-168: the hold event
HoldCheck(s, t) ==
  IF s.debouncedState = LOW /\ ~s.buttonHeld
     /\ t - s.buttonPressStart >= holdThreshold
  THEN [s EXCEPT !.buttonHeld = TRUE, !.currentMode = MODE_FORCE,
                 !.ev.hold = "start"]
  ELSE s

\* handleButton, lines 173-191: a resolved single click
SingleClick(s) ==
  LET s1 == [s EXCEPT !.ev.click = 1, !.ev.from = s.currentMode]
      s2 == CASE s1.currentMode = MODE_OFF ->
                   saveModeIfNeeded(startFlashPattern(
                     [s1 EXCEPT !.currentMode = MODE_BOOST], 1, 250))
               [] s1.currentMode = MODE_BOOST ->
                   saveModeIfNeeded(startFlashPattern(
                     [s1 EXCEPT !.currentMode = MODE_OFF], 3, 250))
               [] s1.currentMode = MODE_INTERVAL ->
                   saveModeIfNeeded(startFlashPattern(
                     [s1 EXCEPT !.currentMode = MODE_OFF], 3, 200))
               [] OTHER -> s1
  IN [s2 EXCEPT !.clickCount = 0, !.waitingForSecondClick = FALSE]

\* faulty variant: a double click selects Interval from any mode
DoubleClick_anyMode(s) ==
  LET s1 == [s EXCEPT !.ev.click = 2, !.ev.from = s.currentMode]
      s2 == saveModeIfNeeded(startFlashPattern(
              [s1 EXCEPT !.currentMode = MODE_INTERVAL], 2, 400))
  IN [s2 EXCEPT !.clickCount = 0, !.waitingForSecondClick = FALSE]

\* handleButton, lines 192-202: a resolved double click
DoubleClick(s) ==
  LET s1 == [s EXCEPT !.ev.click = 2, !.ev.from = s.currentMode]
      s2 == IF s1.currentMode = MODE_OFF
            THEN saveModeIfNeeded(startFlashPattern(
                   [s1 EXCEPT !.currentMode = MODE_INTERVAL], 2, 400))
            ELSE s1
  IN [s2 EXCEPT !.clickCount = 0, !.waitingForSecondClick = FALSE]

\* handleButton, lines 170-204: the pending-click window has run out
ClickTimeout(s, t) ==
  IF s.waitingForSecondClick /\ t - s.lastClickTime > doubleClickMaxGap
  THEN IF s.clickCount = 1 THEN SingleClick(s)
       ELSE IF s.clickCount = 2 THEN DoubleClick(s)
       ELSE s
  ELSE s

\* handleButton(now, reading)
handleButton(s, t, reading) ==
  LET s1 == IF reading # s.lastRawState
            THEN [s EXCEPT !.lastDebounceTime = t] ELSE s
      stable == t - s1.lastDebounceTime > debounceDelay
      s2 == IF stable /\ reading # s1.debouncedState
            THEN ButtonEdge(s1, t, reading) ELSE s1
      s3 == IF stable THEN ClickTimeout(HoldCheck(s2, t), t) ELSE s2
  IN [s3 EXCEPT !.lastRawState = reading]

\* faulty variant: the re-trigger interval is not checked
runBoostMode_noInterval(s, t, underBoost) ==
  LET s1 == IF underBoost /\ ~s.spraying
            THEN startSpray(s, t, "boost") ELSE s
  IN IF s1.spraying /\ t - s1.sprayStartTime >= sprayDuration
     THEN stopSpray(s1) ELSE s1

\* runBoostMode(now, underBoost)
runBoostMode(s, t, underBoost) ==
  LET s1 == IF underBoost /\ ~s.spraying /\ t - s.lastSprayTime >= sprayInterval
            THEN startSpray(s, t, "boost") ELSE s
  IN IF s1.spraying /\ t - s1.sprayStartTime >= sprayDuration
     THEN stopSpray(s1) ELSE s1

\* faulty variant: the interval must be exceeded, not reached
runIntervalMode_strict(s, t) ==
  LET s1 == IF ~s.spraying /\ t - s.lastSprayTime > sprayInterval
            THEN startSpray(s, t, "interval") ELSE s
  IN IF s1.spraying /\ t - s1.sprayStartTime >= sprayDuration
     THEN stopSpray(s1) ELSE s1

\* runIntervalMode(now)
runIntervalMode(s, t) ==
  LET s1 == IF ~s.spraying /\ t - s.lastSprayTime >= sprayInterval
            THEN startSpray(s, t, "interval") ELSE s
  IN IF s1.spraying /\ t - s1.sprayStartTime >= sprayDuration
     THEN stopSpray(s1) ELSE s1

\* trackBoostDuration(underBoost, now)
trackBoostDuration(s, underBoost, t) ==
  IF s.currentMode # MODE_BOOST THEN s
  ELSE
    LET s1 == IF underBoost
              THEN LET a == IF ~s.lastBoost
                            THEN [s EXCEPT !.lastBoostUpdate = t] ELSE s
                   IN [a EXCEPT !.boostTimeAccumulator = @ + (t - a.lastBoostUpdate),
                                !.lastBoostUpdate = t, !.lastBoostActive = t]
              ELSE [s EXCEPT !.lastBoostUpdate = t]
        s2 == IF t - s1.lastBoostUpdate > cooldownWindow
              THEN [s1 EXCEPT !.boostTimeAccumulator = 0] ELSE s1
        s3 == IF s2.boostTimeAccumulator >= boostThreshold
              THEN [s2 EXCEPT !.cooldownReady = TRUE, !.boostTimeAccumulator = 0]
              ELSE s2
    IN [s3 EXCEPT !.lastBoost = underBoost]

\* triggerCooldownSpray(now)
triggerCooldownSpray(s, t) ==
  IF s.currentMode # MODE_BOOST THEN s
  ELSE IF s.cooldownReady /\ ~s.cooling /\ ~s.lastLowWaterState
       THEN LET s1 == [startSpray(s, t, "cooldown") EXCEPT
                         !.cooling = TRUE, !.cooldownStart = t,
                         !.cooldownReady = FALSE]
            IN IF s1.cooling /\ t - s1.cooldownStart >= sprayDuration
               THEN [stopSpray(s1) EXCEPT !.cooling = FALSE]
               ELSE s1
       ELSE s

\* the serial commands that act on the state: none, pump test, lamp test, mode
\* override with argument 0, 1, 2 or out of range (w and d only print)
Cmds == {"none", "p", "l", "m0", "m1", "m2", "m9"}

ModeArg(cmd) == CASE cmd = "m0" -> 0 [] cmd = "m1" -> 1 [] cmd = "m2" -> 2
                  [] OTHER -> 9

\* checkSerialBeforeStartup(): runs at the head of every cycle; the reset
\* command is the Reset action
checkSerialBeforeStartup(s, cmd) ==
  LET s1 == [s EXCEPT !.ev.cmd = cmd]
  IN CASE cmd = "p" -> [s1 EXCEPT !.pumpRelay = LOW]
       [] cmd = "l" -> [s1 EXCEPT !.statusLED = LOW]
       [] cmd \in {"m0", "m1", "m2", "m9"} ->
            IF ModeArg(cmd) <= 2
            THEN saveModeIfNeeded([s1 EXCEPT !.currentMode = ModeArg(cmd)])
            ELSE s1
       [] OTHER -> s1

\* loop, lines 250-257: the low-water warning is engaged
LowWaterEntry(s, t) ==
  IF s.lowWater /\ ~s.lowWaterWarningActive /\ s.currentMode # MODE_OFF
  THEN stopSpray(saveModeIfNeeded(
         [s EXCEPT !.lowWaterWarningActive = TRUE, !.lowWaterWarningStart = t,
                   !.currentMode = MODE_OFF]))
  ELSE s

\* loop, lines 259-274: a cycle spent in the warning
WarningCycle(s, t) ==
  LET s1 == IF t - s.lastBlinkTime >= warningBlinkPeriod
            THEN [s EXCEPT !.ledState = ~s.ledState, !.statusLED = ~s.ledState,
                           !.lastBlinkTime = t]
            ELSE s
      s2 == IF t - s1.lowWaterWarningStart >= lowWaterBlinkDuration
            THEN [s1 EXCEPT !.statusLED = LOW, !.lowWaterWarningActive = FALSE]
            ELSE s1
  IN stopSpray(s2)

\* loop, lines 276-284: force mode
ForceCycle(s, t) ==
  IF ~s.lowWater THEN startSpray(s, t, "force")
  ELSE flashLED(s, t, rapidFlashPeriod)

\* loop, lines 286-302: the mode switch, then the cool-down logic
\* (handleSerialDiagnostics only prints)
ModeCycle(s, t, underBoost) ==
  LET s1 == CASE s.currentMode = MODE_BOOST -> runBoostMode(s, t, underBoost)
              [] s.currentMode = MODE_INTERVAL -> runIntervalMode(s, t)
              [] s.currentMode = MODE_OFF -> stopSpray(s)
              [] OTHER -> s
  IN triggerCooldownSpray(trackBoostDuration(s1, underBoost, t), t)

\* faulty variant: the start-up delay is taken to be the low-level delay
StartupHold_shortDelay(s, t) ==
  ~s.startupDone /\ t - s.startupTime < lowLevelDelay

\* loop, lines 226-240: the start-up delay; TRUE when the cycle returns early
StartupHold(s, t) == ~s.startupDone /\ t - s.startupTime < startupDelay

\* loop(): one control cycle at time t with the serial command and the three
\* pin levels read in it
loop(s, t, cmd, wPin, hPin, bPin) ==
  LET s0 == checkSerialBeforeStartup(s, cmd)
      rawWater == (wPin # HIGH)
      s1 == debouncedWaterLevel(s0, t, rawWater)
      s2 == IF ~s1.startupDone /\ t - s1.startupTime >= lowLevelDelay
               /\ s1.lowWater
            THEN flashLED(s1, t, rapidFlashPeriod) ELSE s1
  IN IF StartupHold(s2, t) THEN s2
     ELSE
       LET s3 == IF ~s2.startupDone
                 THEN [s2 EXCEPT !.startupDone = TRUE, !.statusLED = LOW]
                 ELSE s2
           underBoost == (hPin = LOW)
           s4 == [s3 EXCEPT !.lastLowWaterState = s3.lowWater]
           s5 == handleButton(s4, t, bPin)
           s6 == LowWaterEntry(s5, t)
       IN IF s6.lowWaterWarningActive THEN WarningCycle(s6, t)
          ELSE IF s6.currentMode = MODE_FORCE THEN ForceCycle(s6, t)
          ELSE ModeCycle(s6, t, underBoost)

\* the globals as initialised at lines 45-87 and 427-459, before setup() runs
Globals(byte) ==
  [ now |-> 0, pumpOnSince |-> 0,
    flashByte |-> byte, pumpRelay |-> LOW, statusLED |-> LOW,
    timer3Running |-> FALSE, timer3Period |-> 0, timer3Next |-> 0,
    currentMode |-> MODE_OFF, lastSavedMode |-> MODE_OFF,
    buttonPressStart |-> 0, buttonHeld |-> FALSE,
    waitingForSecondClick |-> FALSE, lastClickTime |-> 0, clickCount |-> 0,
    lastDebounceTime |-> 0, lastRawState |-> HIGH, debouncedState |-> HIGH,
    spraying |-> FALSE, sprayStartTime |-> 0, lastSprayTime |-> 0,
    ledState |-> FALSE, lastBlinkTime |-> 0,
    flashActive |-> FALSE, flashCount |-> 0, flashTotal |-> 0,
    lowWaterWarningActive |-> FALSE, lowWaterWarningStart |-> 0,
    lastRawWater |-> HIGH, lowWater |-> HIGH, lastWaterChange |-> 0,
    lastLowWaterState |-> TRUE,
    startupTime |-> 0, startupDone |-> FALSE,
    cooldownReady |-> FALSE, boostTimeAccumulator |-> 0,
    lastBoostUpdate |-> 0, lastBoost |-> FALSE,
    cooling |-> FALSE, cooldownStart |-> 0,
    lastBoostActive |-> 0,
    ev |-> [NoEv EXCEPT !.step = "reset"] ]

\* setup(): load the mode from flash and announce it; the clock starts at 0
setup(byte) ==
  LET g  == Globals(byte)
      s1 == [g EXCEPT !.currentMode = LoadMode(byte),
                      !.lastSavedMode = LoadMode(byte)]
      s2 == IF s1.currentMode = MODE_BOOST THEN startFlashPattern(s1, 1, 400)
            ELSE IF s1.currentMode = MODE_INTERVAL
                 THEN startFlashPattern(s1, 2, 400)
                 ELSE s1
  IN [s2 EXCEPT !.startupTime = 0, !.startupDone = FALSE]

\* the bytes the flash can hold at boot: erased (all ones), or a mode written
\* by an earlier run
StoredBytes == {255, MODE_OFF, MODE_BOOST, MODE_INTERVAL}

(* ------------------------------------------------------------------ *)
(* Actions                                                             *)
(* ------------------------------------------------------------------ *)
\* boot on stored byte `byte` with the water and boost lines at levels w, h
\* and the button released
Boot(byte, w, h) ==
  /\ waterPin = w
  /\ hobbPin = h
  /\ buttonPin = HIGH
  /\ pinChanges = 0
  /\ waterRawAge = -1 /\ buttonRawAge = -1
  /\ waterStableAge = -1 /\ buttonStableAge = -1
  /\ StartsAs(setup(byte))

B2N(b) == IF b THEN 1 ELSE 0

Cap(x, m) == IF x > m THEN m ELSE x

\* the history of the two debouncers over the cycle at time t that read the
\* water line at w and the button at b and left the program in state s: the
\* water line is sampled in every cycle (line 223), the button only in the
\* cycles that get past the start-up delay (lines 243 and 248)
Sampled(s, t, w, b) ==
  /\ waterRawAge' = IF waterRawAge < 0 \/ w # waterPin THEN 0
                     ELSE Cap(waterRawAge + (t - now), waterStableTime)
  /\ waterStableAge' = IF s.lowWater # lowWater THEN 0
                        ELSE IF waterStableAge < 0 THEN waterStableAge
                        ELSE Cap(waterStableAge + (t - now), waterStableTime)
  /\ buttonRawAge' = IF ~s.startupDone THEN buttonRawAge
                      ELSE IF buttonRawAge < 0 \/ b # buttonPin THEN 0
                      ELSE Cap(buttonRawAge + (t - now), debounceDelay)
  /\ buttonStableAge' = IF s.debouncedState # debouncedState THEN 0
                         ELSE IF buttonStableAge < 0 THEN buttonStableAge
                         ELSE Cap(buttonStableAge + (t - now), debounceDelay)

\* one pass of loop() at time now + dt, reading command cmd and pin levels
\* w, h, b; interrupts of Timer3 due before that time have been served
LoopStep(dt, cmd, w, h, b) ==
  LET s == loop([Prog EXCEPT !.now = now + dt,
                             !.ev = [NoEv EXCEPT !.step = "loop"]],
                now + dt, cmd, w, h, b)
  IN /\ ~(timer3Running /\ timer3Next < now + dt)
     /\ waterPin' = w /\ hobbPin' = h /\ buttonPin' = b
     /\ pinChanges' = pinChanges + B2N(w # waterPin) + B2N(h # hobbPin)
                                 + B2N(b # buttonPin)
     /\ Sampled(s, now + dt, w, b)
     /\ Commit(s)

\* the Timer3 interrupt, due before the pass of loop() that comes dt after the
\* last one
FlashCallback(dt) ==
  /\ timer3Running
  /\ timer3Next <= now + dt
  /\ Commit([flashCallback([Prog EXCEPT !.ev = [NoEv EXCEPT !.step = "flash"]])
               EXCEPT !.timer3Next = timer3Next + timer3Period])
  /\ UNCHANGED << waterPin, hobbPin, buttonPin, pinChanges,
                  waterRawAge, buttonRawAge, waterStableAge, buttonStableAge >>

\* NVIC_SystemReset() or a power cycle: setup() runs again on the stored byte
Reset ==
  /\ ev.step # "reset"
  /\ Commit(setup(flashByte))
  /\ pinChanges' = 0
  /\ waterRawAge' = -1 /\ buttonRawAge' = -1
  /\ waterStableAge' = -1 /\ buttonStableAge' = -1
  /\ UNCHANGED << waterPin, hobbPin, buttonPin >>

\* the inputs a cycle may read: the pins in `free` may change level while the
\* budget of changes lasts
Inputs(free, budget) ==
  { inp \in [w : BOOLEAN, h : BOOLEAN, b : BOOLEAN] :
      /\ inp.w # waterPin => "water" \in free
      /\ inp.h # hobbPin => "hobb" \in free
      /\ inp.b # buttonPin => "button" \in free
      /\ pinChanges + B2N(inp.w # waterPin) + B2N(inp.h # hobbPin)
                    + B2N(inp.b # buttonPin) <= budget }

\* --- the button model: gestures at a fine cadence shortly after start-up,
\* --- the water line steady at either level, the boost switch open
Init == \E byte \in StoredBytes, w \in BOOLEAN : Boot(byte, w, HIGH)

Cadence == IF startupDone THEN RunPeriod ELSE StartupPeriod

Loop ==
  \E inp \in Inputs(IF startupDone THEN {"button"} ELSE {}, MaxPinChanges) :
    /\ now + Cadence <= MaxTime
    /\ LoopStep(Cadence, "none", inp.w, inp.h, inp.b)

Timer == FlashCallback(Cadence)

Next == Loop \/ Timer \/ Reset

Spec == Init /\ [][Next]_vars

\* --- the spray model: a slow cadence over more than two spray intervals,
\* --- the water line and the boost switch change level a few times
SprayInit ==
  \E byte \in StoredBytes, w \in BOOLEAN, h \in BOOLEAN : Boot(byte, w, h)

SprayCadence == IF startupDone THEN SprayPeriod ELSE StartupPeriod

SprayLoop ==
  \E inp \in Inputs(IF startupDone THEN {"water", "hobb"} ELSE {},
                    MaxSprayPinChanges) :
    /\ now + SprayCadence <= SprayMaxTime
    /\ LoopStep(SprayCadence, "none", inp.w, inp.h, inp.b)

SprayTimer == FlashCallback(SprayCadence)

SprayNext == SprayLoop \/ SprayTimer \/ Reset

SpraySpec == SprayInit /\ [][SprayNext]_vars

\* --- the dry-tank model: every pin may change level, over one spray interval
DryLoop ==
  \E inp \in Inputs(IF startupDone THEN {"water", "hobb", "button"} ELSE {},
                    MaxDryPinChanges) :
    /\ now + SprayCadence <= DryMaxTime
    /\ LoopStep(SprayCadence, "none", inp.w, inp.h, inp.b)

DryNext == DryLoop \/ SprayTimer \/ Reset

DrySpec == SprayInit /\ [][DryNext]_vars

\* --- the boot model: the start-up delay cycle by cycle, with the serial
\* --- commands and every pin free to change
BootLoop ==
  \E cmd \in Cmds, inp \in Inputs({"water", "hobb", "button"}, MaxBootPinChanges) :
    /\ now + BootPeriod <= BootMaxTime
    /\ LoopStep(BootPeriod, cmd, inp.w, inp.h, inp.b)

BootTimer == FlashCallback(BootPeriod)

BootNext == BootLoop \/ BootTimer \/ Reset

BootSpec == SprayInit /\ [][BootNext]_vars

\* --- the click model: the button changes level as fast as the debounce
\* --- admits, the other lines are steady
ClickCadence == IF startupDone THEN ClickPeriod ELSE StartupPeriod

ClickLoop ==
  \E inp \in Inputs(IF startupDone THEN {"button"} ELSE {}, MaxClickPinChanges) :
    /\ now + ClickCadence <= ClickMaxTime
    /\ LoopStep(ClickCadence, "none", inp.w, inp.h, inp.b)

ClickTimer == FlashCallback(ClickCadence)

ClickNext == ClickLoop \/ ClickTimer \/ Reset

ClickSpec == Init /\ [][ClickNext]_vars

\* --- the window model: the boost switch opens and closes, the other lines
\* --- are steady, for longer than the cool-down window
WindowLoop ==
  \E inp \in Inputs(IF startupDone THEN {"hobb"} ELSE {}, MaxWindowPinChanges) :
    /\ now + SprayCadence <= WindowMaxTime
    /\ LoopStep(SprayCadence, "none", inp.w, inp.h, inp.b)

WindowNext == WindowLoop \/ SprayTimer \/ Reset

WindowSpec == SprayInit /\ [][WindowNext]_vars

\* --- the debounce model: cycles at two cadences, one inside the button's
\* --- window and one inside the water sensor's; the two lines change level
\* --- once start-up is over
DebounceCadence ==
  IF ~startupDone THEN StartupPeriod
  ELSE IF now < DebounceFastUntil THEN DebounceFast ELSE DebounceSlow

DebounceLoop ==
  \E inp \in Inputs(IF startupDone THEN {"water", "button"} ELSE {},
                    MaxDebouncePinChanges) :
    /\ now + DebounceCadence <= DebounceMaxTime
    /\ LoopStep(DebounceCadence, "none", inp.w, inp.h, inp.b)

DebounceTimer == FlashCallback(DebounceCadence)

DebounceNext == DebounceLoop \/ DebounceTimer \/ Reset

DebounceSpec == Init /\ [][DebounceNext]_vars

(* ------------------------------------------------------------------ *)
(* Claims                                                              *)
(* ------------------------------------------------------------------ *)

\* C1: the pump is never run dry: in every state in which the debounced
\* low-water level is asserted the pump relay is de-energized, in every mode.
C1_PumpNeverDry == lowWater => pumpRelay = LOW

\* a cycle in which the debounced level went low while a spray session was
\* running (started less than the spray duration ago) and the pump was cut
C1_Witness ==
  /\ ev.step = "loop" /\ lowWater /\ pumpRelay = LOW
  /\ lowWaterWarningActive /\ lowWaterWarningStart = now
  /\ sprayStartTime > 0 /\ now - sprayStartTime < sprayDuration

\* C2 (as claimed): while the warning is active the mode is Off at the end of
\* every cycle, whatever the button does.
C2_WarningKeepsModeOff == lowWaterWarningActive => currentMode = MODE_OFF

\* C3: the stored byte, read back through the start-up load rule, is
\* lastSavedMode, and currentMode is lastSavedMode unless it is Force.
C3_ModeSurvivesPowerCycle ==
  /\ LoadMode(flashByte) = lastSavedMode
  /\ currentMode # MODE_FORCE => currentMode = lastSavedMode

\* a single click has just switched Off to Boost and the byte was written
C3_Witness ==
  /\ ev.click = 1 /\ ev.from = MODE_OFF
  /\ currentMode = MODE_BOOST /\ flashByte = MODE_BOOST

\* C4 (as claimed): outside Force mode a continuous period of the pump being
\* energized never reaches the spray duration at the end of a cycle: it has
\* been ended by the first cycle at or after 2000 ms from switch-on, and a
\* start that arrives during a session does not extend it.
C4_SessionAtMostDuration ==
  (pumpRelay = HIGH /\ currentMode # MODE_FORCE)
     => now - pumpOnSince < sprayDuration

Started(e, who) == \E i \in DOMAIN e.starts : e.starts[i] = who

\* C5: a spray started by runBoostMode begins at least 30000 ms after the
\* most recent spray start of any kind.
C5_BoostSprayGap ==
  [][ Started(ev', "boost") => now' - lastSprayTime >= sprayInterval ]_vars

\* runBoostMode has just started a spray, and a cool-down spray had been
\* started before it
C5_Witness ==
  /\ ev.starts = << "boost" >> /\ cooling /\ cooldownStart > 0
  /\ sprayStartTime = now

\* a cycle that dispatches to runIntervalMode: past the start-up delay, mode
\* Interval at the switch, no warning before or after
IntervalCycle ==
  /\ ev'.step = "loop" /\ startupDone' /\ currentMode' = MODE_INTERVAL
  /\ ~lowWaterWarningActive /\ ~lowWaterWarningActive'

\* C6: in Interval mode with no warning a spray starts at the first cycle
\* with no session running and 30000 ms since the last start, whatever the
\* boost switch, it is stopped at the first cycle 2000 ms after its start, and
\* so every cycle leaves a session running or less than 30000 ms since the
\* last start, and starts are at least 30000 ms apart.
C6_IntervalSprays ==
  [][ /\ (IntervalCycle /\ ~spraying /\ now' - lastSprayTime >= sprayInterval)
           => (spraying' /\ sprayStartTime' = now' /\ pumpRelay' = HIGH
               /\ ev'.starts = << "interval" >>)
      /\ (IntervalCycle /\ spraying /\ now' - sprayStartTime >= sprayDuration)
           => (~spraying' /\ pumpRelay' = LOW)
      /\ IntervalCycle => (spraying' \/ now' - lastSprayTime' < sprayInterval)
      /\ Started(ev', "interval") => now' - lastSprayTime >= sprayInterval
    ]_vars

\* an interval spray has just started with the boost switch open, two spray
\* intervals after boot
C6_Witness ==
  /\ ev.starts = << "interval" >> /\ hobbPin = HIGH
  /\ spraying /\ pumpRelay = HIGH /\ now >= 2 * sprayInterval

\* the transition table of the click gestures, on the mode at the moment the
\* click is resolved
ClickTable ==
  /\ (ev.click = 1 /\ ev.from = MODE_OFF /\ ~lowWater)
        => currentMode = MODE_BOOST
  /\ (ev.click = 1 /\ ev.from \in {MODE_BOOST, MODE_INTERVAL})
        => currentMode = MODE_OFF
  /\ (ev.click = 2 /\ ev.from = MODE_OFF /\ ~lowWater)
        => currentMode = MODE_INTERVAL
  /\ (ev.click = 2 /\ ev.from # MODE_OFF /\ ~lowWater)
        => currentMode = ev.from

\* the mode in force apart from a Force override
Underlying == IF currentMode = MODE_FORCE THEN lastSavedMode ELSE currentMode

\* C7: resolved clicks follow the transition table, and no step takes the
\* mode (or the mode a Force override will return to) from Boost to Interval
\* or from Interval to Boost.
C7_ClickTransitions ==
  [][ /\ ClickTable'
      /\ ~(Underlying = MODE_BOOST /\ Underlying' = MODE_INTERVAL)
      /\ ~(Underlying = MODE_INTERVAL /\ Underlying' = MODE_BOOST) ]_vars

\* a double click has just been resolved in Boost mode and was ignored
C7_Witness ==
  /\ ev.click = 2 /\ ev.from = MODE_BOOST /\ currentMode = MODE_BOOST

\* C8: a press held for 2000 ms enters Force once, at the threshold; its
\* debounced release returns to the persisted mode with the spray stopped,
\* counts no click and resolves no click of its own.
C8_HoldAndRelease ==
  [][ /\ (ev'.step = "loop" /\ startupDone' /\ debouncedState' = LOW
           /\ now' - lastDebounceTime' > debounceDelay
           /\ now' - buttonPressStart' >= holdThreshold) => buttonHeld'
      /\ ev'.hold = "start"
           => /\ ~buttonHeld /\ buttonHeld'
              /\ now' - buttonPressStart' >= holdThreshold
              /\ (currentMode' = MODE_FORCE \/ lowWater')
      /\ (buttonHeld /\ debouncedState = LOW /\ debouncedState' = LOW
           /\ ev'.step = "loop")
           => (buttonHeld' /\ ev'.hold = "none"
               /\ buttonPressStart' = buttonPressStart)
      /\ ev'.hold = "release"
           => /\ buttonHeld /\ debouncedState = LOW /\ debouncedState' = HIGH
              /\ (pumpRelay' = LOW /\ ~spraying') \/ ev'.starts # << >>
              /\ ev'.click = 0 =>
                   (currentMode' = lastSavedMode
                      \/ (lowWater' /\ currentMode' = MODE_OFF))
              /\ clickCount' <= clickCount
              /\ ~waitingForSecondClick
                   => (ev'.click = 0 /\ ~waitingForSecondClick')
    ]_vars

\* a hold that forced a spray from Boost mode has just been released
C8_Witness ==
  /\ ev.hold = "release" /\ currentMode = MODE_BOOST /\ lastSprayTime > 0
  /\ ~spraying /\ pumpRelay = LOW /\ clickCount = 0

\* C9 (as claimed): while the button is held past the threshold and the
\* debounced water level is low, the pump is off and the lamp runs the 200 ms
\* rapid flash: it toggles in every cycle 200 ms or more after its last toggle.
C9_RapidFlashWhileHeld ==
  [][ (ev'.step = "loop" /\ startupDone' /\ buttonHeld' /\ debouncedState' = LOW
         /\ lowWater')
        => /\ pumpRelay' = LOW
           /\ now' - lastBlinkTime >= rapidFlashPeriod
                => (ledState' # ledState /\ lastBlinkTime' = now') ]_vars

\* C10: in a cycle inside the 15000 ms warm-up window the pump is off, no
\* spray and no warning is started, the button state machine does not move,
\* and the mode and the stored byte change only by a serial mode command.
C10_WarmUp ==
  [][ (ev'.step = "loop" /\ now' - startupTime' < startupDelay)
        => /\ pumpRelay' = LOW /\ ~spraying' /\ ev'.starts = << >>
           /\ ~lowWaterWarningActive' /\ ~startupDone'
           /\ ev'.click = 0 /\ ev'.hold = "none"
           /\ debouncedState' = debouncedState /\ clickCount' = clickCount
           /\ buttonHeld' = buttonHeld
           /\ ev'.cmd \notin {"m0", "m1", "m2"}
                => (currentMode' = currentMode /\ flashByte' = flashByte
                    /\ lastSavedMode' = lastSavedMode) ]_vars

\* a warm-up cycle with low water, the button pressed and the loaded mode
\* Boost still in place
C10_Witness ==
  /\ ev.step = "loop" /\ ~startupDone /\ now >= lowLevelDelay
  /\ lowWater /\ buttonPin = LOW /\ currentMode = MODE_BOOST
  /\ flashByte = MODE_BOOST

\* C11 (as claimed): at the end of every cycle spent in the Warning the lamp
\* shows the blink phase, which flips in every cycle 500 ms or more after the
\* last flip, so the lamp is on during alternate half-periods; the cycle that
\* clears the Warning leaves the lamp off.
C11_WarningBlink ==
  [][ /\ (ev'.step = "loop" /\ lowWaterWarningActive')
          => /\ statusLED' = ledState'
             /\ (now' - lastBlinkTime >= warningBlinkPeriod /\ ev'.click = 0)
                   => ledState' # ledState
      /\ (ev'.step = "loop" /\ lowWaterWarningActive /\ ~lowWaterWarningActive')
          => statusLED' = LOW ]_vars

\* how many sprays the caller `who` started in the step observed by e
Starts(e, who) == Cardinality({i \in DOMAIN e.starts : e.starts[i] = who})

\* C12 (as claimed): every cycle in which the boost accumulator reaches the
\* 20000 ms threshold (and so falls back to 0) starts exactly one cool-down
\* spray and leaves the armed flag cleared, at the first crossing after boot
\* and at every later one.
C12_CooldownEveryCrossing ==
  [][ (ev'.step = "loop" /\ boostTimeAccumulator' < boostTimeAccumulator)
        => (Starts(ev', "cooldown") = 1 /\ ~cooldownReady') ]_vars

\* C13 (as claimed): booted on Boost with water not low and the boost switch
\* open through the warm-up, the cycle that first reads the switch closed
\* starts the normal spray (assertion + 0 ms), and no cycle of the run starts
\* more than one cool-down spray.
C13_SprayAtBoostAssertion ==
  [][ /\ (ev'.step = "loop" /\ startupDone /\ pinChanges = 0
           /\ currentMode = MODE_BOOST /\ lastSavedMode = MODE_BOOST
           /\ ~lowWater /\ waterPin' = HIGH
           /\ hobbPin = HIGH /\ hobbPin' = LOW)
          => (ev'.starts = << "boost" >> /\ spraying' /\ pumpRelay' = HIGH
              /\ sprayStartTime' = now')
      /\ ev'.step = "loop" => Starts(ev', "cooldown") <= 1 ]_vars

\* the value in the store just before the i-th write of the step
StoredBefore(ws, i) == IF i = 1 THEN lastSavedMode ELSE ws[i - 1]

\* the cycle engages the low-water warning
WarningEngaged == ~lowWaterWarningActive /\ lowWaterWarningActive'

\* the mode changed twice within the cycle: a click was resolved and the
\* low-water warning then put the mode to Off
ClickThenWarning == ev'.click # 0 /\ WarningEngaged

\* C14: every write to the store writes Off, Boost or Interval, never Force,
\* and a value that differs from the one stored just before it; the store
\* holds the last value written and is untouched without a write; a cycle in
\* which the mode does not change, or which enters Force, stays in it or
\* leaves it for the stored mode, writes nothing; a cycle writes once, or
\* twice when the mode changes twice in it.
C14_WriteOnChange ==
  [][ ev'.step = "loop" =>
        LET ws == ev'.writes
        IN /\ \A i \in DOMAIN ws :
                /\ ws[i] \in {MODE_OFF, MODE_BOOST, MODE_INTERVAL}
                /\ ws[i] # StoredBefore(ws, i)
           /\ ws # << >> => (flashByte' = ws[Len(ws)] /\ lastSavedMode' = flashByte')
           /\ ws = << >> => (flashByte' = flashByte /\ lastSavedMode' = lastSavedMode)
           /\ (currentMode' = currentMode /\ ~ClickThenWarning) => ws = << >>
           /\ ~ClickThenWarning => Len(ws) <= 1
           /\ ClickThenWarning => Len(ws) <= 2
           /\ currentMode' = MODE_FORCE => ws = << >>
           /\ (currentMode = MODE_FORCE /\ currentMode' = lastSavedMode)
                => ws = << >>
    ]_vars

\* a held button has just been released after a forced spray: Force is left
\* for the stored mode Boost and nothing was written
C14_Witness ==
  /\ ev.hold = "release" /\ ev.writes = << >> /\ currentMode = MODE_BOOST
  /\ flashByte = MODE_BOOST /\ lastSprayTime > 0

\* C15 (as claimed): a call of stopSpray made while no spray session is
\* active changes neither the pump output nor the lamp output, and stopSpray
\* writes nothing to the store.
C15_StopIdempotent ==
  [][ ev'.step = "loop" =>
        /\ \A i \in DOMAIN ev'.stops :
              ~ev'.stops[i].active
                 => /\ ev'.stops[i].pumpAfter = ev'.stops[i].pump
                    /\ ev'.stops[i].lampAfter = ev'.stops[i].lamp
        /\ stopSpray(Prog).flashByte = flashByte
        /\ stopSpray(Prog).ev.writes = ev.writes ]_vars

\* C16 (as claimed): whenever a spray session is active and the pump is
\* energized the lamp output is on, in the states left by control cycles and
\* in the states left by the flash-pattern timer callback alike.
C16_SolidOnWhileSpraying == (spraying /\ pumpRelay = HIGH) => statusLED = HIGH

\* C17 (as claimed): a control cycle that begins with an identification
\* pattern in progress leaves the pattern as it was, whatever pattern it
\* requests: the pattern stays active with its progress counter, its number of
\* half-cycles and its interval untouched.
C17_PatternNotInterrupted ==
  [][ (ev'.step = "loop" /\ flashActive)
        => /\ flashActive' /\ flashCount' = flashCount
           /\ flashTotal' = flashTotal /\ timer3Period' = timer3Period
           /\ timer3Next' = timer3Next ]_vars

\* C18 (as claimed): a cycle in which handleButton runs on debounce-stable
\* input with the pending-click window open for more than 500 ms ends with
\* clickCount = 0 and waitingForSecondClick cleared, however many clicks the
\* window has collected.
C18_ClicksResolved ==
  [][ (ev'.step = "loop" /\ startupDone' /\ waitingForSecondClick
         /\ now' - lastClickTime > doubleClickMaxGap
         /\ now' - lastDebounceTime' > debounceDelay)
        => (clickCount' = 0 /\ ~waitingForSecondClick') ]_vars

\* C19 (as claimed): at the end of a cycle in Boost mode, if more than
\* 60000 ms have passed since the tracker last sampled the boost switch
\* active, the accumulator is 0.
C19_SlidingWindow ==
  (ev.step = "loop" /\ startupDone /\ currentMode = MODE_BOOST
     /\ ~lowWaterWarningActive /\ now - lastBoostActive > cooldownWindow)
    => boostTimeAccumulator = 0

\* C20 (as claimed): a control cycle adds to the boost accumulator at most
\* the time since the previous cycle, and only if the controller was in Boost
\* mode at the end of that cycle and of this one, with no Warning and the
\* boost switch active; otherwise the accumulator does not grow.
C20_CreditOnlyInBoost ==
  [][ ev'.step = "loop" =>
        boostTimeAccumulator' <= boostTimeAccumulator +
          (IF currentMode = MODE_BOOST /\ currentMode' = MODE_BOOST
              /\ ~lowWaterWarningActive' /\ hobbPin' = LOW
           THEN now' - now ELSE 0) ]_vars

\* C21: the stable value of either debouncer (button, 50 ms; water sensor,
\* 1000 ms) changes only in a cycle whose raw sample equals the raw sample of
\* every sampled cycle of at least the last window, it takes that raw value,
\* and two changes of one stable value are at least the window apart.
C21_DebouncedChange ==
  [][ ev'.step = "loop" =>
        /\ debouncedState' # debouncedState
             => /\ debouncedState' = buttonPin'
                /\ buttonRawAge' >= debounceDelay
                /\ buttonStableAge >= 0
                     => buttonStableAge + (now' - now) >= debounceDelay
        /\ lowWater' # lowWater
             => /\ lowWater' = (waterPin' # HIGH)
                /\ waterRawAge' >= waterStableTime
                /\ waterStableAge >= 0
                     => waterStableAge + (now' - now) >= waterStableTime
    ]_vars

\* the debounced water level has just changed on a raw change read after
\* start-up, on samples closer together than its window, and the debounced
\* button has been pressed and released before
C21_Witness ==
  /\ ev.step = "loop" /\ waterStableAge = 0 /\ lastWaterChange > startupDelay
  /\ buttonStableAge >= 0 /\ debouncedState = HIGH /\ pinChanges >= 3

=============================================================================
